---- MODULE Spec2Model ----
(***************************************************************************)
(* State-machine model of the combat simulation core of fps-game           *)
(* (src/fps-game/src/main.js): weapon runtime and fire gating, hitscan     *)
(* resolution against the enemy registries, the damage and health model,   *)
(* and the deferred one-shot callbacks (setTimeout) that complete reloads, *)
(* respawn the player and replace dead enemies.                            *)
(*                                                                         *)
(* Time is performance.now() in whole milliseconds.  Rendering, meshes,    *)
(* textures and the HUD are not modelled; the ray-intersection service is  *)
(* a nondeterministic choice over the objects of the pool it is given.     *)
(***************************************************************************)
EXTENDS Integers, Sequences, FiniteSets, Bags, TLC

VARIABLES
  now,                 \* performance.now(), ms
  input,               \* main.js 28-36
  currentWeaponIndex,  \* main.js 124
  weaponState,         \* main.js 125-131
  timers,              \* pending setTimeout callbacks (a bag)
  player,              \* main.js 22-27
  camera,              \* the camera: the player's eye, main.js 455
  enemyObj,            \* heap of the enemy objects created so far
  enemies,             \* enemyManager.enemies
  hitMeshes,           \* enemyManager.hitMeshes
  meshToEnemy,         \* enemyManager.meshToEnemy
  nextId,              \* next fresh object identity
  shotsLeft,           \* shots the run may still fire (bounds the run)
  framesLeft,          \* frames the run may still render (bounds the run)
  obs                  \* what the last handler did (observation only)

vars == << now, input, currentWeaponIndex, weaponState, timers, player,
           camera, enemyObj, enemies, hitMeshes, meshToEnemy, nextId,
           shotsLeft, framesLeft, obs >>

----------------------------------------------------------------------------
(* Config, main.js 9-16 *)

\* Population of the model; main.js 11 sets 18.
ENEMY_TARGET_COUNT == 2
WORLD_SIZE == 3200
GRAVITY == 64
PLAYER_SPEED == 180
\* main.js 14 has 1.7: the multiplier in tenths
PLAYER_SPRINT_MULTIPLIER == 17
PLAYER_JUMP_VELOCITY == 260
PLAYER_MAX_HEALTH == 100

(* Bounds of the model *)

\* performance.now() when the run starts, a minute into the session.
StartTime == 60000
\* How long before the start a weapon that was in use fired its last shot.
PriorShotAge == 2000
\* Time advances by ticks of TICK_MS during the first MaxTicks ticks after
\* the start, and from then on to the times at which callbacks are due.
MaxTicks == 2
TICK_MS == 50
\* Successful shots per run.
MaxShots == 2
\* Frames per run.
MaxFrames == 2
\* A frame is rendered TICK_MS or LongGap after the step before it.
LongGap == 1900
\* The health of a player who was hurt before the start, PriorDamageAge
\* before it.
LowHealth == 10
PriorDamageAge == 1000

HorizonTime == StartTime + MaxTicks * TICK_MS

----------------------------------------------------------------------------
(* Utilities, main.js 51-54 *)

\* Lengths are held in millionths of a world unit and speeds in thousandths
\* of a unit per second, so that a frame of a whole number of milliseconds
\* moves the player by a whole number.
MILLI == 1000
MICRO == 1000000

Vector3(x, y, z) == [x |-> x, y |-> y, z |-> z]

clamp(value, min, max) ==
  LET lo == IF max < value THEN max ELSE value
  IN IF min > lo THEN min ELSE lo

Min2(a, b) == IF a < b THEN a ELSE b

Range(s) == { s[i] : i \in DOMAIN s }

\* Array.prototype.filter(x => x !== v)
FilterOut(s, v) == SelectSeq(s, LAMBDA x : x # v)

\* Map.prototype.delete
MapDelete(f, k) == [ x \in (DOMAIN f) \ {k} |-> f[x] ]

\* Map.prototype.set
MapSet(f, k, v) == [ x \in (DOMAIN f) \cup {k} |-> IF x = k THEN v ELSE f[x] ]

----------------------------------------------------------------------------
(* Weapon catalog, main.js 115-122.  reload is def.reload * 1000 (ms);     *)
(* pellets = 0 stands for an absent pellets property.                      *)

WEAPON_DEFS == <<
  [key |-> "pistol",  damage |-> 22, rpm |-> 420, mag |-> 15, reserve |-> 90,
   reload |-> 1200, range |-> 1000, pellets |-> 0, auto |-> FALSE],
  [key |-> "smg",     damage |-> 16, rpm |-> 900, mag |-> 32, reserve |-> 192,
   reload |-> 1600, range |-> 850,  pellets |-> 0, auto |-> TRUE],
  [key |-> "ar",      damage |-> 28, rpm |-> 700, mag |-> 30, reserve |-> 180,
   reload |-> 1800, range |-> 1100, pellets |-> 0, auto |-> TRUE],
  [key |-> "shotgun", damage |-> 12, rpm |-> 85,  mag |-> 8,  reserve |-> 48,
   reload |-> 2200, range |-> 250,  pellets |-> 8, auto |-> FALSE],
  [key |-> "sniper",  damage |-> 95, rpm |-> 55,  mag |-> 5,  reserve |-> 25,
   reload |-> 2800, range |-> 2200, pellets |-> 0, auto |-> FALSE],
  [key |-> "lmg",     damage |-> 24, rpm |-> 720, mag |-> 60, reserve |-> 360,
   reload |-> 3000, range |-> 1200, pellets |-> 0, auto |-> TRUE] >>

\* Catalog indices are 0-based as in the source.
WeaponIndex == 0 .. (Len(WEAPON_DEFS) - 1)

WeaponDef(i) == WEAPON_DEFS[i + 1]

\* One runtime state per catalog entry, main.js 125-131 (skinIndex is
\* cosmetic and left out).
InitialWeaponState ==
  [ i \in WeaponIndex |->
      [ammo |-> WeaponDef(i).mag, reserve |-> WeaponDef(i).reserve,
       lastShotTime |-> 0, reloading |-> FALSE] ]

----------------------------------------------------------------------------
(* Deferred callbacks.  A pending setTimeout is a record of the callback's *)
(* kind, the object its closure captured, and the time it is due.          *)

Timer(kind, target, due) == [kind |-> kind, target |-> target, due |-> due]

AddTimer(tm, t) == tm (+) SetToBag({t})

RemoveTimer(tm, t) == tm (-) SetToBag({t})

PendingTimers == BagToSet(timers)

\* A callback that is due runs before time moves on.
TimerDue == \E t \in PendingTimers : t.due <= now

----------------------------------------------------------------------------
(* The program state as one record, so that a handler is an operator from  *)
(* a world to the world (or the set of worlds) it can leave behind.  fx    *)
(* records what a fire attempt did: the weapon it was made with (-1: no    *)
(* attempt yet), whether it fired, how many times performRaycastShot ran,  *)
(* the applyDamageToPlayer calls that were made, each with the player      *)
(* before and after it, the enemies updateEnemies went through, each with  *)
(* the enemy before and after, the shots the enemies attempted, and what   *)
(* the pellets of the attempt did; it is reset when a handler starts.      *)

NoFx == [w |-> -1, fired |-> FALSE, queries |-> 0, calls |-> << >>,
         ai |-> << >>, shots |-> << >>, pellets |-> {}]

World ==
  [input |-> input, cwi |-> currentWeaponIndex, ws |-> weaponState,
   timers |-> timers, player |-> player, camera |-> camera, obj |-> enemyObj,
   enemies |-> enemies, hitMeshes |-> hitMeshes, meshToEnemy |-> meshToEnemy,
   nextId |-> nextId, fx |-> NoFx]

\* The step that leaves world W behind.
Becomes(W) ==
  /\ input' = W.input
  /\ currentWeaponIndex' = W.cwi
  /\ weaponState' = W.ws
  /\ timers' = W.timers
  /\ player' = W.player
  /\ camera' = W.camera
  /\ enemyObj' = W.obj
  /\ enemies' = W.enemies
  /\ hitMeshes' = W.hitMeshes
  /\ meshToEnemy' = W.meshToEnemy
  /\ nextId' = W.nextId

\* The fire attempt that left world W behind is recorded.
Observed(W) == obs' = W.fx

----------------------------------------------------------------------------
(* Enemies, main.js 310-368 *)

\* The object literal of createEnemy, main.js 332-341.  An enemy's mesh
\* carries the identity of its enemy; y is group.position.y, which
\* setEnemyRandomPosition (main.js 349-351) sets to 12.
NewEnemy(id) ==
  [health |-> 100, state |-> "patrol", nextWanderTime |-> 0,
   lastShotTime |-> 0, mesh |-> id, y |-> 12 * MICRO]

\* A replacement that resets and re-registers a removed enemy object when
\* there is one
createEnemy_ResetsOld(W) ==
  LET gone == DOMAIN W.obj \ Range(W.enemies)
      id == IF gone = {} THEN W.nextId ELSE CHOOSE e \in gone : TRUE
      e  == NewEnemy(id)
  IN [W EXCEPT !.obj = MapSet(@, id, e),
               !.enemies = Append(@, id),
               !.hitMeshes = Append(@, e.mesh),
               !.meshToEnemy = MapSet(@, e.mesh, id),
               !.nextId = IF gone = {} THEN id + 1 ELSE @]

\* main.js 316-348
createEnemy(W) ==
  LET id == W.nextId
      e  == NewEnemy(id)
  IN [W EXCEPT !.obj = MapSet(@, id, e),
               !.enemies = Append(@, id),
               !.hitMeshes = Append(@, e.mesh),
               !.meshToEnemy = MapSet(@, e.mesh, id),
               !.nextId = id + 1]

\* The removal leaving the dead enemy's mesh in hitMeshes
applyDamageToEnemy_KeepsHitMesh(W, enemy, damage, t) ==
  LET W1 == [W EXCEPT !.obj[enemy].health = @ - damage]
      mesh == W.obj[enemy].mesh
  IN IF W1.obj[enemy].health <= 0
     THEN [W1 EXCEPT !.meshToEnemy = MapDelete(@, mesh),
                     !.enemies = FilterOut(@, enemy),
                     !.timers = AddTimer(@, Timer("createEnemy", 0, t + 2000))]
     ELSE W1

\* The removal scheduling no replacement
applyDamageToEnemy_NoReplacement(W, enemy, damage, t) ==
  LET W1 == [W EXCEPT !.obj[enemy].health = @ - damage]
      mesh == W.obj[enemy].mesh
  IN IF W1.obj[enemy].health <= 0
     THEN [W1 EXCEPT !.meshToEnemy = MapDelete(@, mesh),
                     !.hitMeshes = FilterOut(@, mesh),
                     !.enemies = FilterOut(@, enemy)]
     ELSE W1

\* main.js 354-368, called at time t
applyDamageToEnemy(W, enemy, damage, t) ==
  LET W1 == [W EXCEPT !.obj[enemy].health = @ - damage]
      mesh == W.obj[enemy].mesh
  IN IF W1.obj[enemy].health <= 0
     THEN [W1 EXCEPT !.meshToEnemy = MapDelete(@, mesh),
                     !.hitMeshes = FilterOut(@, mesh),
                     !.enemies = FilterOut(@, enemy),
                     !.timers = AddTimer(@, Timer("createEnemy", 0, t + 2000))]
     ELSE W1

----------------------------------------------------------------------------
(* Combat resolver, main.js 263-290 *)

\* What raycaster.intersectObjects(enemyManager.hitMeshes) can report as
\* the nearest object when the ray meets the pool: any mesh of the pool if
\* the camera is aimed towards the enemies, none if it is aimed at the
\* ground away from them.
EnemyPoolHits(W, aimed) == IF aimed THEN Range(W.hitMeshes) ELSE {}

\* What raycaster.intersectObjects(worldColliders) can report: a ray sent
\* towards the enemies meets a wall, an obstacle or the ground within
\* def.range, or nothing; a ray sent down and away from them meets the
\* ground.
WorldPoolHits(aimed) == IF aimed THEN {TRUE, FALSE} ELSE {TRUE}

\* The enemies whose health differs between two worlds
Damaged(W, W2) ==
  { e \in DOMAIN W.obj : W2.obj[e].health # W.obj[e].health }

\* What one pellet did: the mesh the enemy pool reported (-1: none), the
\* enemies it damaged, whether spawnHitMarker ran, what the query of the
\* world colliders reported ("none": they were not queried) and whether
\* spawnImpact ran
Pellet(mesh, damaged, marker, world, impact) ==
  [mesh |-> mesh, damaged |-> damaged, marker |-> marker, world |-> world,
   impact |-> impact]

\* The pellet that goes on to the world colliders after an enemy hit
performRaycastShot_PassThrough(W, def, damage, t, aimed) ==
  LET W1 == [W EXCEPT !.fx.queries = @ + 1]
      afterEnemy(hit) ==
        IF hit \in DOMAIN W1.meshToEnemy
        THEN applyDamageToEnemy(W1, W1.meshToEnemy[hit], damage, t)
        ELSE W1
  IN { [afterEnemy(hit) EXCEPT !.fx.pellets = @ \cup
          {Pellet(hit, Damaged(W1, afterEnemy(hit)),
                  hit \in DOMAIN W1.meshToEnemy,
                  IF worldHit THEN "hit" ELSE "miss", worldHit)}]
       : hit \in EnemyPoolHits(W1, aimed), worldHit \in WorldPoolHits(aimed) }
     \cup
     { [W1 EXCEPT !.fx.pellets = @ \cup
          {Pellet(-1, {}, FALSE, IF worldHit THEN "hit" ELSE "miss",
                  worldHit)}]
       : worldHit \in WorldPoolHits(aimed) }

\* One pellet, main.js 263-290: the worlds it can leave behind.  The ray
\* meets a mesh of the enemy pool, or none; a mesh that meshToEnemy knows
\* is damaged and marked and the pellet ends there; otherwise the world
\* colliders are queried and an impact is spawned if the ray meets one.
performRaycastShot(W, def, damage, t, aimed) ==
  LET W1 == [W EXCEPT !.fx.queries = @ + 1]
      onWorld(mesh) ==
        { [W1 EXCEPT !.fx.pellets = @ \cup
             {Pellet(mesh, {}, FALSE, IF worldHit THEN "hit" ELSE "miss",
                     worldHit)}]
          : worldHit \in WorldPoolHits(aimed) }
      onEnemy(hit) ==
        IF hit \in DOMAIN W1.meshToEnemy
        THEN LET W2 == applyDamageToEnemy(W1, W1.meshToEnemy[hit], damage, t)
             IN { [W2 EXCEPT !.fx.pellets = @ \cup
                     {Pellet(hit, Damaged(W1, W2), TRUE, "none", FALSE)}] }
        ELSE onWorld(hit)
  IN UNION { onEnemy(hit) : hit \in EnemyPoolHits(W1, aimed) }
     \cup onWorld(-1)

RECURSIVE firePellets(_, _, _, _, _, _)
\* The for loop of main.js 241: the worlds n pellets can leave behind when
\* fired from one of the worlds Ws
firePellets(Ws, n, def, damage, t, aimed) ==
  IF n = 0 THEN Ws
  ELSE firePellets(UNION { performRaycastShot(W, def, damage, t, aimed)
                           : W \in Ws },
                   n - 1, def, damage, t, aimed)

----------------------------------------------------------------------------
(* Weapon runtime, main.js 196-248 *)

\* The switch without the wraparound
switchWeapon_NoWrap(W, nextIndex) ==
  IF W.cwi = nextIndex THEN W ELSE [W EXCEPT !.cwi = nextIndex]

\* main.js 196-203
switchWeapon(W, nextIndex) ==
  LET n1 == IF nextIndex < 0 THEN Len(WEAPON_DEFS) - 1 ELSE nextIndex
      n2 == IF n1 >= Len(WEAPON_DEFS) THEN 0 ELSE n1
  IN IF W.cwi = n2 THEN W ELSE [W EXCEPT !.cwi = n2]

\* tryReload without the check of the reserve
tryReload_NoReserveCheck(W, t) ==
  LET def == WeaponDef(W.cwi)
      st  == W.ws[W.cwi]
  IN IF st.reloading THEN W
     ELSE IF st.ammo >= def.mag THEN W
     ELSE [W EXCEPT !.ws[W.cwi].reloading = TRUE,
                    !.timers = AddTimer(@, Timer("reload", W.cwi, t + def.reload))]

\* tryReload without the check of the reloading flag
tryReload_NoReloadingCheck(W, t) ==
  LET def == WeaponDef(W.cwi)
      st  == W.ws[W.cwi]
  IN IF st.ammo >= def.mag \/ st.reserve <= 0 THEN W
     ELSE [W EXCEPT !.ws[W.cwi].reloading = TRUE,
                    !.timers = AddTimer(@, Timer("reload", W.cwi, t + def.reload))]

\* main.js 205-221, called at time t
tryReload(W, t) ==
  LET def == WeaponDef(W.cwi)
      st  == W.ws[W.cwi]
  IN IF st.reloading THEN W
     ELSE IF st.ammo >= def.mag \/ st.reserve <= 0 THEN W
     ELSE [W EXCEPT !.ws[W.cwi].reloading = TRUE,
                    !.timers = AddTimer(@, Timer("reload", W.cwi, t + def.reload))]

\* The transfer without the cap
reloadTake_Uncapped(def, st) == def.mag - st.ammo

\* The transfer of a reload: what the magazine lacks, capped by the reserve,
\* main.js 213-214
reloadTake(def, st) == Min2(def.mag - st.ammo, st.reserve)

\* The callback reading the equipped weapon when it runs, not the weapon
\* that was equipped when the reload started
reloadCallback_Equipped(W, w) ==
  LET def == WeaponDef(W.cwi)
      st  == W.ws[W.cwi]
      take == Min2(def.mag - st.ammo, st.reserve)
  IN [W EXCEPT !.ws[W.cwi].ammo = @ + take,
               !.ws[W.cwi].reserve = @ - take,
               !.ws[W.cwi].reloading = FALSE]

\* The callback of main.js 212-220 for the weapon its closure captured
reloadCallback(W, w) ==
  LET def == WeaponDef(w)
      st  == W.ws[w]
      take == reloadTake(def, st)
  IN [W EXCEPT !.ws[w].ammo = @ + take,
               !.ws[w].reserve = @ - take,
               !.ws[w].reloading = FALSE]

\* The gate with the interval taken in seconds: 60 / def.rpm
RateGateOpen_Seconds(def, st, t) == (t - st.lastShotTime) * def.rpm >= 60

\* now - st.lastShotTime >= 60000 / def.rpm, in integers
RateGateOpen(def, st, t) == (t - st.lastShotTime) * def.rpm >= 60000

\* canShoot without the rate-of-fire gate
canShoot_NoGate(W, t) ==
  LET st == W.ws[W.cwi]
  IN IF st.reloading THEN [ok |-> FALSE, W |-> W]
     ELSE IF st.ammo <= 0 THEN [ok |-> FALSE, W |-> tryReload(W, t)]
     ELSE [ok |-> TRUE, W |-> W]

\* canShoot answering no on an empty magazine without the reload attempt
canShoot_NoReloadAttempt(W, t) ==
  LET def == WeaponDef(W.cwi)
      st  == W.ws[W.cwi]
  IN IF st.reloading THEN [ok |-> FALSE, W |-> W]
     ELSE IF st.ammo <= 0 THEN [ok |-> FALSE, W |-> W]
     ELSE [ok |-> RateGateOpen(def, st, t), W |-> W]

\* main.js 223-231: the answer and the world canShoot leaves behind
canShoot(W, t) ==
  LET def == WeaponDef(W.cwi)
      st  == W.ws[W.cwi]
  IN IF st.reloading THEN [ok |-> FALSE, W |-> W]
     ELSE IF st.ammo <= 0 THEN [ok |-> FALSE, W |-> tryReload(W, t)]
     ELSE [ok |-> RateGateOpen(def, st, t), W |-> W]

\* One pellet whatever the weapon
pelletsFired_One(def) == 1

\* main.js 239-244: the number of performRaycastShot calls of one shot
pelletsFired(def) ==
  IF def.key = "shotgun"
  THEN (IF def.pellets = 0 THEN 8 ELSE def.pellets)
  ELSE 1

\* main.js 233-248: the worlds shoot() can leave behind
shoot(W, t, aimed) ==
  LET def == WeaponDef(W.cwi)
      w   == W.cwi
      c   == canShoot(W, t)
  IN IF ~c.ok THEN {[c.W EXCEPT !.fx.w = w]}
     ELSE LET W1 == [c.W EXCEPT !.ws[w].lastShotTime = t, !.fx.w = w]
              n  == pelletsFired(def)
          IN { [W2 EXCEPT !.ws[w].ammo = @ - 1, !.fx.fired = TRUE]
               : W2 \in firePellets({W1}, n, def, def.damage, t, aimed) }

----------------------------------------------------------------------------
(* Damage and health of the player, main.js 426-445 *)

\* The damage taken whatever the time of the last damage
applyDamageToPlayer_NoWindow(W, dmg, t) ==
  LET W2 == [W EXCEPT !.player.lastDamageTime = t, !.player.health = @ - dmg]
      W1 == IF W2.player.health <= 0
            THEN [W2 EXCEPT !.player.health = 0,
                            !.timers = AddTimer(@, Timer("respawnPlayer", 0,
                                                         t + 2000))]
            ELSE W2
  IN [W1 EXCEPT !.fx.calls = Append(@, [dmg |-> dmg, t |-> t,
                                        before |-> W.player,
                                        after |-> W1.player])]

\* main.js 426-437, called at time t
applyDamageToPlayer(W, dmg, t) ==
  LET W2 == [W EXCEPT !.player.lastDamageTime = t, !.player.health = @ - dmg]
      W1 == IF t - W.player.lastDamageTime < 200 THEN W
            ELSE IF W2.player.health <= 0
            THEN [W2 EXCEPT !.player.health = 0,
                            !.timers = AddTimer(@, Timer("respawnPlayer", 0,
                                                         t + 2000))]
            ELSE W2
  IN [W1 EXCEPT !.fx.calls = Append(@, [dmg |-> dmg, t |-> t,
                                        before |-> W.player,
                                        after |-> W1.player])]

\* main.js 439-445
respawnPlayer(W) ==
  [W EXCEPT !.camera.position = Vector3(0, 24 * MICRO, 0),
            !.player.velocity = Vector3(0, 0, 0),
            !.player.health = PLAYER_MAX_HEALTH]

----------------------------------------------------------------------------
(* Enemy AI, main.js 370-424.  The positions of the enemies are vectors of *)
(* floats which the model does not keep: the distance from an enemy to the *)
(* player is drawn in each frame, and the step an enemy makes (at most 4   *)
(* units a frame) is part of that draw.                                    *)

\* The values of Math.random(), in thousandths: 0 <= Math.random() < 1
MathRandom == 0 .. 999

\* main.js 52, in thousandths, r being the value of Math.random()
randFloat(min, max, r) == r * (max - min) + min * MILLI

\* Math.floor of a number of thousandths
floor(x) == x \div MILLI

\* main.js 53: the values randInt(min, max) returns
randInt(min, max) == { floor(randFloat(min, max, r)) : r \in MathRandom }

\* The distances drawn, in world units: within attack range and beyond
\* chase range
DistSamples == {500, 1500}

\* The values of Math.random() drawn, in thousandths: the least and the
\* greatest, and those next to the bounds of the hit chance
RandomSamples == {0, 49, 50, 349, 350, 999}

\* The wander period drawn, main.js 385
WanderSamples == { r \in randInt(1500, 3500) : r = 1500 }

\* main.js 417: the damages an enemy's hit can pass to applyDamageToPlayer
EnemyDamages == randInt(6, 14)

\* The damages drawn: the least and the greatest
DamageSamples ==
  { d \in EnemyDamages : (\A o \in EnemyDamages : d <= o)
                        \/ (\A o \in EnemyDamages : d >= o) }

\* The hit chance without its floor
hitChance_NoFloor(dist) == clamp(600 - dist \div 2, 0, 350)

\* main.js 415, in thousandths
hitChance(dist) == clamp(600 - dist \div 2, 50, 350)

\* main.js 412-424: the worlds an enemy's shot at time t can leave behind;
\* the shot is recorded with its distance, its hit chance and its outcome
attemptEnemyShot(W, enemy, dist, t) ==
  UNION { LET W1 == [W EXCEPT !.fx.shots =
                        Append(@, [enemy |-> enemy, dist |-> dist,
                                   chance |-> hitChance(dist),
                                   hit |-> roll < hitChance(dist)])]
          IN IF roll < hitChance(dist)
             THEN { applyDamageToPlayer(W1, dmg, t) : dmg \in DamageSamples }
             ELSE {W1}
          : roll \in RandomSamples }

\* The state of an enemy that keeps attacking or chasing until the player is
\* 100 units beyond the range
enemyStateAt_Sticky(prev, dist) ==
  IF dist < 700 \/ (prev = "attack" /\ dist < 800) THEN "attack"
  ELSE IF dist < 1100 \/ (prev = "chase" /\ dist < 1200) THEN "chase"
  ELSE "patrol"

\* main.js 379-381: the state of an enemy that was in state prev and is at
\* distance dist
enemyStateAt(prev, dist) ==
  IF dist < 700 THEN "attack"
  ELSE IF dist < 1100 THEN "chase" ELSE "patrol"

\* main.js 375-377, 388, 390: the height an enemy at height y reaches by a
\* step of speed * delta along toPlayer, the normalised vector from the enemy
\* to the camera at height py, dist away; rounded down to a millionth
stepTowardsPlayer(y, py, dist, speed, deltaMs) ==
  y + (((py - y) \div dist) * speed * deltaMs) \div MILLI

\* The distance measured as if the step had led away from the player
distanceAfterStep_Away(dist, speed, deltaMs) ==
  dist + (speed * deltaMs) \div MILLI

\* main.js 390, 414: the distance attemptEnemyShot measures from the enemy
\* to the player, the enemy having been dist away and having made a step of
\* speed * delta towards the player (past the player if it was nearer than
\* the step), in whole units
distanceAfterStep(dist, speed, deltaMs) ==
  LET step == (speed * deltaMs) \div MILLI
  IN IF dist >= step THEN dist - step ELSE step - dist

\* An enemy firing whenever it attacks
mayFire_Always(lastShotTime, t) == TRUE

\* main.js 393-394: msPerShot
mayFire(lastShotTime, t) == t - lastShotTime >= 800

\* main.js 374-409: the worlds the loop body can leave behind for an enemy at
\* distance dist; what it did is recorded in fx.ai
updateEnemyAt(W, e, t, deltaMs, dist) ==
  LET state == enemyStateAt(W.obj[e].state, dist)
      W1 == [W EXCEPT !.obj[e].state = state]
      py == W.camera.position.y
      fires == state = "attack" /\ mayFire(W1.obj[e].lastShotTime, t)
      Ws == IF state = "patrol"
            THEN IF t > W1.obj[e].nextWanderTime
                 THEN { [W1 EXCEPT !.obj[e].nextWanderTime = t + r]
                        : r \in WanderSamples }
                 ELSE {W1}
            ELSE IF state = "chase"
            THEN { [W1 EXCEPT !.obj[e].y =
                      stepTowardsPlayer(@, py, dist, 80, deltaMs)] }
            ELSE LET W2 == [W1 EXCEPT !.obj[e].y =
                              stepTowardsPlayer(@, py, dist, 20, deltaMs)]
                 IN IF fires
                    THEN attemptEnemyShot([W2 EXCEPT !.obj[e].lastShotTime = t],
                                          e, distanceAfterStep(dist, 20, deltaMs),
                                          t)
                    ELSE {W2}
  IN { [W3 EXCEPT !.fx.ai = Append(@, [enemy |-> e, dist |-> dist, t |-> t,
                                       py |-> py, before |-> W.obj[e],
                                       after |-> W3.obj[e],
                                       shot |-> fires])]
       : W3 \in Ws }

\* The loop body for an enemy whose distance is one of dists
updateEnemy(W, e, t, deltaMs, dists) ==
  UNION { updateEnemyAt(W, e, t, deltaMs, dist) : dist \in dists }

RECURSIVE updateEnemiesFrom(_, _, _, _, _)
\* The loop of main.js 374 from the i-th enemy on
updateEnemiesFrom(Ws, i, t, deltaMs, dists) ==
  IF Ws = {} \/ \A W \in Ws : i > Len(W.enemies) THEN Ws
  ELSE updateEnemiesFrom(UNION { updateEnemy(W, W.enemies[i], t, deltaMs,
                                             dists) : W \in Ws },
                         i + 1, t, deltaMs, dists)

\* main.js 370-410
updateEnemies(W, t, deltaMs, dists) ==
  updateEnemiesFrom({W}, 1, t, deltaMs, dists)

----------------------------------------------------------------------------
(* Movement, main.js 579-627.  The camera's yaw is 0: the mouse look is    *)
(* not modelled.  deltaMs is the frame's delta in milliseconds.            *)

\* main.js 582-588: keyDir in thousandths, normalised (a diagonal has
\* components of 0.707)
keyDir(in) ==
  LET x == (IF in.left THEN -1 ELSE 0) + (IF in.right THEN 1 ELSE 0)
      z == (IF in.forward THEN -1 ELSE 0) + (IF in.backward THEN 1 ELSE 0)
      len == IF x # 0 /\ z # 0 THEN 707 ELSE MILLI
  IN Vector3(x * len, 0, z * len)

\* main.js 579-627
updateMovement(W, deltaMs) ==
  LET dir == keyDir(W.input)
      speed == IF W.input.sprint
               THEN (PLAYER_SPEED * PLAYER_SPRINT_MULTIPLIER) \div 10
               ELSE PLAYER_SPEED
      targetVel == Vector3(dir.x * speed, 0, dir.z * speed)
      v0 == W.player.velocity
      accelStep == clamp(600 * deltaMs, 0, MILLI)
      v1 == Vector3(v0.x + ((targetVel.x - v0.x) * accelStep) \div MILLI,
                    v0.y + ((targetVel.y - v0.y) * accelStep) \div MILLI,
                    v0.z + ((targetVel.z - v0.z) * accelStep) \div MILLI)
      v2 == IF ~W.player.onGround
            THEN [v1 EXCEPT !.y = @ - GRAVITY * deltaMs] ELSE v1
      jumps == W.player.onGround /\ W.input.jump
      v3 == IF jumps THEN [v2 EXCEPT !.y = PLAYER_JUMP_VELOCITY * MILLI]
            ELSE v2
      onGround3 == IF jumps THEN FALSE ELSE W.player.onGround
      p0 == W.camera.position
      p1 == Vector3(p0.x + v3.x * deltaMs, p0.y + v3.y * deltaMs,
                    p0.z + v3.z * deltaMs)
      groundY == 24 * MICRO
      lands == p1.y <= groundY
      lim == (WORLD_SIZE \div 2 - 10) * MICRO
  IN [W EXCEPT
        !.player.velocity = IF lands THEN [v3 EXCEPT !.y = 0] ELSE v3,
        !.player.onGround = IF lands THEN TRUE ELSE onGround3,
        !.camera.position =
           Vector3(clamp(p1.x, -lim, lim),
                   IF lands THEN groundY ELSE p1.y,
                   clamp(p1.z, -lim, lim))]

----------------------------------------------------------------------------
(* Game loop, main.js 630-639 *)

\* The worlds the frame rendered at time t can leave behind, elapsedMs after
\* the frame before it, each enemy being at one of the distances dists
animate(W, t, elapsedMs, aimed, dists) ==
  LET deltaMs == clamp(elapsedMs, 0, 50)
      W1 == updateMovement(W, deltaMs)
      Ws == IF W1.input.shooting /\ WeaponDef(W1.cwi).auto
            THEN shoot(W1, t, aimed) ELSE {W1}
  IN UNION { updateEnemies(W2, t, deltaMs, dists) : W2 \in Ws }

----------------------------------------------------------------------------
(* Event handlers, main.js 535-574 *)

\* Input events arrive up to the horizon; afterwards only the pending
\* callbacks run.
EventsOpen == now <= HorizonTime

\* main.js 559-564; aimed: the camera looks towards the enemies
onMouseDown(button, aimed) ==
  /\ EventsOpen
  /\ shotsLeft > 0
  /\ IF button = 0
     THEN \E W \in shoot([World EXCEPT !.input.shooting = TRUE], now, aimed) :
            /\ Becomes(W)
            /\ Observed(W)
            /\ shotsLeft' = IF W.fx.fired THEN shotsLeft - 1 ELSE shotsLeft
     ELSE /\ Becomes(World)
          /\ UNCHANGED << shotsLeft, obs >>
  /\ UNCHANGED << now, framesLeft >>

\* main.js 566-568
onMouseUp(button) ==
  /\ EventsOpen
  /\ Becomes(IF button = 0 THEN [World EXCEPT !.input.shooting = FALSE]
             ELSE World)
  /\ UNCHANGED << now, shotsLeft, framesLeft, obs >>

\* main.js 536-541: the keys W, S, A, D, Space and Shift, by the input they
\* set
onKeyDownMove(key) ==
  /\ EventsOpen
  /\ Becomes([World EXCEPT !.input[key] = TRUE])
  /\ UNCHANGED << now, shotsLeft, framesLeft, obs >>

\* main.js 550-557
onKeyUp(key) ==
  /\ EventsOpen
  /\ Becomes([World EXCEPT !.input[key] = FALSE])
  /\ UNCHANGED << now, shotsLeft, framesLeft, obs >>

\* main.js 542: the R key
onKeyDownR ==
  /\ EventsOpen
  /\ Becomes(tryReload(World, now))
  /\ UNCHANGED << now, shotsLeft, framesLeft, obs >>

\* main.js 544-547: the keys Digit1 .. Digit6
onKeyDownDigit(digit) ==
  /\ EventsOpen
  /\ Becomes(switchWeapon(World, digit - 1))
  /\ UNCHANGED << now, shotsLeft, framesLeft, obs >>

\* main.js 570-574, sign = Math.sign(e.deltaY)
onWheel(sign) ==
  /\ EventsOpen
  /\ Becomes(IF sign > 0 THEN switchWeapon(World, currentWeaponIndex + 1)
             ELSE IF sign < 0 THEN switchWeapon(World, currentWeaponIndex - 1)
             ELSE World)
  /\ UNCHANGED << now, shotsLeft, framesLeft, obs >>

----------------------------------------------------------------------------
(* Deferred callbacks running *)

\* A reload completes, main.js 212-220
ReloadDone ==
  \E t \in PendingTimers :
    /\ t.kind = "reload"
    /\ t.due <= now
    /\ Becomes([reloadCallback(World, t.target)
                  EXCEPT !.timers = RemoveTimer(@, t)])
    /\ UNCHANGED << now, shotsLeft, framesLeft, obs >>

\* A replacement enemy is created, main.js 364-366
EnemyReplaced ==
  \E t \in PendingTimers :
    /\ t.kind = "createEnemy"
    /\ t.due <= now
    /\ Becomes([createEnemy(World) EXCEPT !.timers = RemoveTimer(@, t)])
    /\ UNCHANGED << now, shotsLeft, framesLeft, obs >>

\* The player respawns, main.js 434
PlayerRespawned ==
  \E t \in PendingTimers :
    /\ t.kind = "respawnPlayer"
    /\ t.due <= now
    /\ Becomes([respawnPlayer(World) EXCEPT !.timers = RemoveTimer(@, t)])
    /\ UNCHANGED << now, shotsLeft, framesLeft, obs >>

\* attemptEnemyShot applied to an enemy at distance dist, main.js 412-424,
\* up to the horizon
EnemyShot(dist) ==
  /\ EventsOpen
  /\ \E e \in Range(enemies) :
       \E W \in attemptEnemyShot(World, e, dist, now) :
         /\ Becomes(W)
         /\ Observed(W)
         /\ UNCHANGED << now, shotsLeft, framesLeft >>

\* The earliest time a pending callback is due
NextDue == CHOOSE d \in { t.due : t \in PendingTimers } :
             \A t \in PendingTimers : d <= t.due

\* Time passes by one tick (up to the horizon), no callback being due.
Tick ==
  /\ ~TimerDue
  /\ now + TICK_MS <= HorizonTime
  /\ now' = now + TICK_MS
  /\ UNCHANGED << input, currentWeaponIndex, weaponState, timers, player,
                  camera, enemyObj, enemies, hitMeshes, meshToEnemy, nextId,
                  shotsLeft, framesLeft, obs >>

\* Time passes until the next pending callback is due.
AwaitTimer ==
  /\ ~TimerDue
  /\ PendingTimers # {}
  /\ now' = NextDue
  /\ UNCHANGED << input, currentWeaponIndex, weaponState, timers, player,
                  camera, enemyObj, enemies, hitMeshes, meshToEnemy, nextId,
                  shotsLeft, framesLeft, obs >>

\* The frame callback runs, gap after the step before it: the callbacks
\* that are due have run, and none is due before the frame.
Animate(gap, aimed, dists) ==
  /\ framesLeft > 0
  /\ ~TimerDue
  /\ PendingTimers # {} => now + gap <= NextDue
  /\ (input.shooting /\ WeaponDef(currentWeaponIndex).auto) => shotsLeft > 0
  /\ \E W \in animate(World, now + gap, gap, aimed, dists) :
       /\ Becomes(W)
       /\ Observed(W)
       /\ shotsLeft' = IF W.fx.fired THEN shotsLeft - 1 ELSE shotsLeft
  /\ now' = now + gap
  /\ framesLeft' = framesLeft - 1

----------------------------------------------------------------------------
(* The state after initWorld, main.js 450-527 *)

RECURSIVE createEnemies(_, _)
\* main.js 514
createEnemies(W, n) == IF n = 0 THEN W ELSE createEnemies(createEnemy(W), n - 1)

EmptyWorld ==
  [input |-> [forward |-> FALSE, backward |-> FALSE, left |-> FALSE,
              right |-> FALSE, jump |-> FALSE, sprint |-> FALSE,
              shooting |-> FALSE],
   cwi |-> 2, ws |-> InitialWeaponState, timers |-> EmptyBag,
   player |-> [velocity |-> Vector3(0, 0, 0), onGround |-> TRUE,
               health |-> PLAYER_MAX_HEALTH, lastDamageTime |-> 0],
   camera |-> [position |-> Vector3(0, 24 * MICRO, 0)],
   obj |-> << >>, enemies |-> << >>, hitMeshes |-> << >>,
   meshToEnemy |-> << >>, nextId |-> 1, fx |-> NoFx]

InitWorld == createEnemies(EmptyWorld, ENEMY_TARGET_COUNT)

Init ==
  /\ now = StartTime
  /\ input = InitWorld.input
  /\ currentWeaponIndex = InitWorld.cwi
  /\ weaponState = InitWorld.ws
  /\ timers = InitWorld.timers
  /\ player = InitWorld.player
  /\ camera = InitWorld.camera
  /\ enemyObj = InitWorld.obj
  /\ enemies = InitWorld.enemies
  /\ hitMeshes = InitWorld.hitMeshes
  /\ meshToEnemy = InitWorld.meshToEnemy
  /\ nextId = InitWorld.nextId
  /\ shotsLeft = MaxShots
  /\ framesLeft = MaxFrames
  /\ obs = NoFx

\* The magazine and reserve the equipped rifle can be found with when the run
\* starts: the magazine empty or full, the reserve empty, one round or full.
PriorAmmo ==
  LET def == WeaponDef(InitWorld.cwi)
  IN { [ammo |-> a, reserve |-> r, reloading |-> FALSE,
        lastShotTime |-> IF a = def.mag /\ r = def.reserve THEN 0
                         ELSE StartTime - PriorShotAge]
       : a \in {0, def.mag}, r \in {0, 1, def.reserve} }

\* The session has run for a while: the rifle was used, nothing is pending.
InitWeapon ==
  /\ now = StartTime
  /\ input = InitWorld.input
  /\ currentWeaponIndex = InitWorld.cwi
  /\ \E st \in PriorAmmo :
       weaponState = [InitWorld.ws EXCEPT ![InitWorld.cwi] = st]
  /\ timers = InitWorld.timers
  /\ player = InitWorld.player
  /\ camera = InitWorld.camera
  /\ enemyObj = InitWorld.obj
  /\ enemies = InitWorld.enemies
  /\ hitMeshes = InitWorld.hitMeshes
  /\ meshToEnemy = InitWorld.meshToEnemy
  /\ nextId = InitWorld.nextId
  /\ shotsLeft = MaxShots
  /\ framesLeft = MaxFrames
  /\ obs = NoFx

\* The health the player can be found with when the run starts
PriorHealth ==
  { [InitWorld.player EXCEPT !.health = h,
        !.lastDamageTime = IF h = PLAYER_MAX_HEALTH THEN 0
                           ELSE StartTime - PriorDamageAge]
    : h \in {PLAYER_MAX_HEALTH, LowHealth} }

\* The session has run for a while: the player may have been hurt, nothing
\* is pending.
InitFrame ==
  /\ now = StartTime
  /\ input = InitWorld.input
  /\ currentWeaponIndex = InitWorld.cwi
  /\ weaponState = InitWorld.ws
  /\ timers = InitWorld.timers
  /\ player \in PriorHealth
  /\ camera = InitWorld.camera
  /\ enemyObj = InitWorld.obj
  /\ enemies = InitWorld.enemies
  /\ hitMeshes = InitWorld.hitMeshes
  /\ meshToEnemy = InitWorld.meshToEnemy
  /\ nextId = InitWorld.nextId
  /\ shotsLeft = MaxShots
  /\ framesLeft = MaxFrames
  /\ obs = NoFx

\* The player handles the weapons while looking away from the enemies.
NextWeapon ==
  \/ \E button \in {0, 2} : onMouseDown(button, FALSE)
  \/ onKeyDownR
  \/ \E digit \in 1 .. 6 : onKeyDownDigit(digit)
  \/ \E sign \in {-1, 1} : onWheel(sign)
  \/ ReloadDone
  \/ Tick
  \/ AwaitTimer

SpecWeapon == Init /\ [][NextWeapon]_vars

\* The player fires and reloads the rifle, the shotgun and the sniper,
\* switching between them, while looking away from the enemies.
NextReload ==
  \/ onMouseDown(0, FALSE)
  \/ onKeyDownR
  \/ \E digit \in {3, 4, 5} : onKeyDownDigit(digit)
  \/ ReloadDone
  \/ Tick
  \/ AwaitTimer

SpecReload == InitWeapon /\ [][NextReload]_vars

\* The player fights the enemies with the rifle, the shotgun and the sniper.
NextCombat ==
  \/ onMouseDown(0, TRUE)
  \/ \E digit \in {4, 5} : onKeyDownDigit(digit)
  \/ EnemyReplaced
  \/ Tick
  \/ AwaitTimer

SpecCombat == Init /\ [][NextCombat]_vars

\* The frames are rendered and the enemies fire at the player, who walks
\* forward or stands.
NextFrame ==
  \/ \E gap \in {TICK_MS, LongGap} : Animate(gap, FALSE, DistSamples)
  \/ onKeyDownMove("forward")
  \/ onKeyUp("forward")
  \/ PlayerRespawned
  \/ AwaitTimer

SpecFrame == InitFrame /\ [][NextFrame]_vars

\* The distances the enemies are seen at, in world units: inside each range
\* and on both sides of the thresholds
AISamples == {500, 699, 700, 900, 1099, 1100, 1500}

\* The frames are rendered with all enemies at one distance from the player,
\* who jumps or stands.
NextAI ==
  \/ \E gap \in {TICK_MS, LongGap} :
       \E dist \in AISamples : Animate(gap, FALSE, {dist})
  \/ onKeyDownMove("jump")
  \/ onKeyUp("jump")
  \/ PlayerRespawned
  \/ AwaitTimer

SpecAI == InitFrame /\ [][NextAI]_vars

\* The player presses and releases the fire button, reloads and switches
\* between the rifle and the shotgun while frames are rendered TICK_MS
\* apart, the enemies being out of range: with the button held every frame
\* makes a fire attempt with an automatic weapon.
NextBurst ==
  \/ onMouseDown(0, FALSE)
  \/ onMouseUp(0)
  \/ Animate(TICK_MS, FALSE, {1500})
  \/ \E digit \in {3, 4} : onKeyDownDigit(digit)
  \/ onKeyDownR
  \/ ReloadDone
  \/ AwaitTimer

SpecBurst == Init /\ [][NextBurst]_vars

\* The distances attemptEnemyShot is applied to, in world units
ChanceDistances == { 100 * k : k \in 0 .. 24 }

\* attemptEnemyShot is applied at every distance, time passing.
NextChance ==
  \/ \E dist \in ChanceDistances : EnemyShot(dist)
  \/ PlayerRespawned
  \/ Tick
  \/ AwaitTimer

SpecChance == InitFrame /\ [][NextChance]_vars

\* The callbacks run once due, and time passes: the event loop's guarantee.
FairSpecCombat ==
  SpecCombat /\ WF_vars(EnemyReplaced) /\ WF_vars(AwaitTimer) /\ WF_vars(Tick)

\* The callbacks run once due, and time passes: the event loop's guarantee.
FairSpecReload ==
  SpecReload /\ WF_vars(ReloadDone) /\ WF_vars(AwaitTimer) /\ WF_vars(Tick)

----------------------------------------------------------------------------
(* Weapon runtime: the claims *)

Def(w) == WeaponDef(w)
St(w) == weaponState[w]

\* Weapon w spends ammo in this step.
SpendsAmmo(w) == weaponState'[w].ammo < weaponState[w].ammo

\* C1: rate-of-fire gate.  A weapon's lastShotTime is the time of its last
\* successful shot (it is set by, and only by, the steps that spend its
\* ammo), and a step spends one round of a weapon only when at least
\* 60000/rpm ms have passed since then: an attempt made earlier is rejected
\* and spends nothing, so two attempts within 60000/rpm ms cost one round.
C1_RateOfFireGate ==
  [][ \A w \in WeaponIndex :
        /\ SpendsAmmo(w) =>
             /\ weaponState'[w].ammo = St(w).ammo - 1
             /\ weaponState'[w].lastShotTime = now
             /\ (now - St(w).lastShotTime) * Def(w).rpm >= 60000
        /\ weaponState'[w].lastShotTime # St(w).lastShotTime => SpendsAmmo(w)
    ]_vars

\* C1 witness: the rifle fired at the start of the run, and a second attempt
\* with it, made within its 85.7 ms window, was rejected: one round is gone.
C1_Witness ==
  /\ St(2).lastShotTime = StartTime
  /\ now - StartTime < 86
  /\ obs = [NoFx EXCEPT !.w = 2]
  /\ St(2).ammo = Def(2).mag - 1
  /\ ~St(2).reloading

\* C2: every weapon's magazine and reserve stay within their capacities.
C2_AmmoBounds ==
  \A w \in WeaponIndex :
    /\ 0 <= St(w).ammo /\ St(w).ammo <= Def(w).mag
    /\ 0 <= St(w).reserve /\ St(w).reserve <= Def(w).reserve

\* C2 witness: the rifle, with one round in reserve, fired and its reload
\* has completed: the magazine is at its capacity and the reserve at 0.
C2_Witness ==
  /\ St(2).ammo = Def(2).mag /\ St(2).reserve = 0
  /\ St(2).lastShotTime >= StartTime
  /\ ~St(2).reloading

\* A reload request on the equipped weapon is refused in this state.
ReloadRefused(w) ==
  St(w).reloading \/ St(w).ammo = Def(w).mag \/ St(w).reserve = 0

ReloadTimer(w, due) == Timer("reload", w, due)

\* C3: a reload request (the R key) is a no-op when the equipped weapon is
\* reloading, full, or without reserve; otherwise it sets reloading, leaves
\* the ammo alone and schedules one completion.  A reload starts in no other
\* state.  The completion moves min(mag - ammo, reserve) rounds from the
\* reserve to the magazine and clears reloading.
C3_Reload ==
  [][ /\ onKeyDownR =>
           LET w == currentWeaponIndex
           IN IF ReloadRefused(w)
              THEN weaponState' = weaponState /\ timers' = timers
              ELSE /\ weaponState' = [weaponState EXCEPT ![w].reloading = TRUE]
                   /\ timers' = timers (+) SetToBag({ReloadTimer(w, now + Def(w).reload)})
      /\ \A w \in WeaponIndex :
           /\ (~St(w).reloading /\ weaponState'[w].reloading) =>
                /\ w = currentWeaponIndex
                /\ ~ReloadRefused(w)
                /\ weaponState'[w].ammo = St(w).ammo
                /\ weaponState'[w].reserve = St(w).reserve
                /\ CopiesIn(ReloadTimer(w, now + Def(w).reload), timers') = 1
           /\ (St(w).reloading /\ ~weaponState'[w].reloading) =>
                LET take == Min2(Def(w).mag - St(w).ammo, St(w).reserve)
                IN /\ weaponState'[w].ammo = St(w).ammo + take
                   /\ weaponState'[w].reserve = St(w).reserve - take
                   /\ weaponState'[w].ammo + weaponState'[w].reserve
                        = St(w).ammo + St(w).reserve
                   /\ \E t \in PendingTimers :
                        /\ t.kind = "reload" /\ t.target = w /\ t.due <= now
                        /\ timers' = timers (-) SetToBag({t})
    ]_vars

\* C3 witness: a reload of the empty rifle with one round in reserve has
\* completed: the one round moved, which is less than the magazine lacked.
C3_Witness ==
  /\ St(2).ammo = 1 /\ St(2).reserve = 0
  /\ ~St(2).reloading
  /\ St(2).lastShotTime = StartTime - PriorShotAge
  /\ now >= StartTime + Def(2).reload

\* A step that changes the equipped weapon.
Switches == currentWeaponIndex' # currentWeaponIndex

\* C4: a weapon switch changes no weapon's state and cancels nothing that is
\* pending; the completion of A's reload changes A's state only, whatever
\* weapon is equipped; and a reload that has started completes.
C4_SwitchKeepsReload ==
  /\ [][ /\ Switches => weaponState' = weaponState /\ timers' = timers
         /\ \A a \in WeaponIndex :
              (St(a).reloading /\ ~weaponState'[a].reloading) =>
                /\ weaponState'[a].ammo
                     = St(a).ammo + Min2(Def(a).mag - St(a).ammo, St(a).reserve)
                /\ \A b \in WeaponIndex \ {a} : weaponState'[b] = St(b)
       ]_vars
  /\ \A a \in WeaponIndex : St(a).reloading ~> ~St(a).reloading

\* C4 witness: the rifle's reload has completed while another weapon was
\* equipped (no switch is possible after the horizon, so the weapon equipped
\* now was equipped when the completion ran).
C4_Witness ==
  /\ currentWeaponIndex # 2
  /\ St(2).ammo = Def(2).mag /\ St(2).reserve = Def(2).reserve - 1
  /\ ~St(2).reloading
  /\ now >= StartTime + Def(2).reload

\* The number of pellet resolutions one shot of weapon w makes.
PelletCount(w) == IF Def(w).key = "shotgun" THEN Def(w).pellets ELSE 1

\* C5: a shot spends exactly one round, whatever the pellet count, and
\* resolves exactly pellets (8) pellets for the shotgun and exactly one for
\* every other weapon; an attempt that does not fire resolves none.
C5_OneRoundPerShot ==
  [][ /\ \A w \in WeaponIndex :
           SpendsAmmo(w) =>
             /\ weaponState'[w].ammo = St(w).ammo - 1
             /\ obs'.w = w /\ obs'.fired
             /\ obs'.queries = PelletCount(w)
      /\ (obs' # obs /\ obs'.fired) => SpendsAmmo(obs'.w)
      /\ ~obs'.fired => obs'.queries = 0
    ]_vars

\* C5 witness: the shotgun has fired once: one round gone, eight pellets.
C5_Witness ==
  /\ obs.w = 3 /\ obs.fired /\ obs.queries = 8
  /\ St(3).ammo = Def(3).mag - 1

----------------------------------------------------------------------------
(* Enemy registries: the claims *)

Active == Range(enemies)

\* The enemy objects that were removed
Removed == DOMAIN enemyObj \ Active

NoDuplicates(s) == \A i, j \in DOMAIN s : s[i] = s[j] => i = j

\* The replacement callbacks that are pending
PendingReplacements ==
  LET tm == { t \in PendingTimers : t.kind = "createEnemy" }
      RECURSIVE Sum(_)
      Sum(S) == IF S = {} THEN 0
                ELSE LET t == CHOOSE x \in S : TRUE
                     IN CopiesIn(t, timers) + Sum(S \ {t})
  IN Sum(tm)

\* The three registries describe the same enemies, one entry each.
RegistriesAgree ==
  /\ NoDuplicates(enemies) /\ NoDuplicates(hitMeshes)
  /\ Range(hitMeshes) = { enemyObj[e].mesh : e \in Active }
  /\ DOMAIN meshToEnemy = Range(hitMeshes)
  /\ \A m \in DOMAIN meshToEnemy :
       meshToEnemy[m] \in Active /\ enemyObj[meshToEnemy[m]].mesh = m

\* C8: in every state the active-enemy list, the hit-queryable set and the
\* hit-volume map describe the same enemies, each of them alive, and every
\* enemy object outside them is dead; an enemy leaves them in the step that
\* brings its health to 0 or below, and the blow that does is the last one
\* it takes: no later pellet of the same shot, and no later shot, hits it.
C8_AtomicRemoval ==
  /\ [](RegistriesAgree
        /\ (\A e \in Active : enemyObj[e].health > 0)
        /\ (\A e \in Removed : enemyObj[e].health <= 0))
  /\ [][ /\ \A e \in Active \ Range(enemies') :
              /\ obs'.fired
              /\ enemyObj'[e].health <= 0
              /\ enemyObj'[e].health + Def(obs'.w).damage > 0
         /\ \A e \in Removed : enemyObj'[e] = enemyObj[e]
       ]_vars

\* C8 witness: a shotgun blast has killed an enemy: it is in no registry,
\* and the other enemy took pellets of the same blast.
C8_Witness ==
  /\ obs.fired /\ obs.w = 3
  /\ \E e \in Removed : enemyObj[e].health + Def(3).damage > 0
  /\ \E e \in Active : enemyObj[e].health < 100
  /\ Len(hitMeshes) = ENEMY_TARGET_COUNT - 1

\* C9: the active enemies and the pending replacements add up to the target
\* population, and once below the target the active count returns to it.
C9_PopulationConserved ==
  /\ [](Len(enemies) + PendingReplacements = ENEMY_TARGET_COUNT)
  /\ [](Len(enemies) <= ENEMY_TARGET_COUNT)
  /\ (Len(enemies) < ENEMY_TARGET_COUNT) ~> (Len(enemies) = ENEMY_TARGET_COUNT)

\* C9 witness: an enemy was killed and its replacement has been created.
C9_Witness ==
  /\ Len(enemies) = ENEMY_TARGET_COUNT
  /\ Removed # {}
  /\ PendingReplacements = 0

ReplacementTimer(due) == Timer("createEnemy", 0, due)

\* C10: a step in which k enemies die schedules exactly k replacements, due
\* 2000 ms later; a replacement consumes one of them and adds one enemy, of
\* an identity no enemy object had before, with health 100, state patrol
\* and zeroed timers; a removed enemy never becomes active again.
C10_FreshReplacement ==
  [][ LET died == Active \ Range(enemies')
          born == Range(enemies') \ Active
      IN /\ died # {} =>
              /\ born = {}
              /\ timers' = timers (+) [t \in {ReplacementTimer(now + 2000)}
                                         |-> Cardinality(died)]
         /\ born # {} =>
              /\ died = {}
              /\ Cardinality(born) = 1
              /\ \A e \in born :
                   /\ e \notin DOMAIN enemyObj
                   /\ enemyObj'[e].health = 100
                   /\ enemyObj'[e].state = "patrol"
                   /\ enemyObj'[e].nextWanderTime = 0
                   /\ enemyObj'[e].lastShotTime = 0
              /\ \E t \in PendingTimers :
                   /\ t.kind = "createEnemy" /\ t.due <= now
                   /\ timers' = timers (-) SetToBag({t})
         /\ (died = {} /\ born = {}) =>
              \A d \in { t.due : t \in PendingTimers } \cup { now + 2000 } :
                CopiesIn(ReplacementTimer(d), timers')
                  = CopiesIn(ReplacementTimer(d), timers)
         /\ \A e \in Removed : e \notin Range(enemies')
    ]_vars

\* C10 witness: an enemy of the start was killed and its replacement was
\* created: an active enemy has a new identity, full health and state patrol.
C10_Witness ==
  /\ \E e \in Active :
       /\ e > ENEMY_TARGET_COUNT
       /\ enemyObj[e].health = 100 /\ enemyObj[e].state = "patrol"
  /\ \E e \in 1 .. ENEMY_TARGET_COUNT : e \in Removed

----------------------------------------------------------------------------
(* Damage and health of the player: the claims *)

\* The applyDamageToPlayer calls of the last frame
DamageCalls == { obs.calls[i] : i \in DOMAIN obs.calls }

\* The call was made less than 200 ms after the last accepted one.
InWindow(c) == c.t - c.before.lastDamageTime < 200

\* C6: an applyDamageToPlayer call made less than 200 ms after the most
\* recent accepted call changes neither player.health nor
\* player.lastDamageTime, and player.health is within 0 .. PLAYER_MAX_HEALTH
\* in every state.
C6_DamageWindow ==
  /\ \A c \in DamageCalls :
       InWindow(c) => /\ c.after.health = c.before.health
                      /\ c.after.lastDamageTime = c.before.lastDamageTime
  /\ player.health \in 0 .. PLAYER_MAX_HEALTH

\* C6 witness: two enemies hit the player in one frame, the second within
\* the window the first one opened; the player has lost health.
C6_Witness ==
  /\ \E i \in DOMAIN obs.calls :
       /\ i > 1
       /\ InWindow(obs.calls[i])
       /\ ~InWindow(obs.calls[1])
  /\ player.health < PLAYER_MAX_HEALTH

RespawnTimer(due) == Timer("respawnPlayer", 0, due)

\* What respawnPlayer does restore: a call that brings player.health to 0
\* schedules a respawn 2000 ms later, and the respawn sets player.health to
\* PLAYER_MAX_HEALTH, the camera to (0, 24, 0) and the velocity to 0.
RespawnRestoresPlayer ==
  [][ /\ (player.health > 0 /\ player'.health = 0) =>
           CopiesIn(RespawnTimer(now' + 2000), timers')
             = CopiesIn(RespawnTimer(now' + 2000), timers) + 1
      /\ PlayerRespawned =>
           /\ player'.health = PLAYER_MAX_HEALTH
           /\ camera'.position = Vector3(0, 24 * MICRO, 0)
           /\ player'.velocity = Vector3(0, 0, 0)
    ]_vars

\* C7: a call that brings player.health to 0 schedules a respawn, and the
\* respawn, 2000 ms later, sets player.health to PLAYER_MAX_HEALTH, puts the
\* camera back at (0, 24, 0) and clears the damage cooldown: once the
\* respawn has run no invulnerability window is open.
C7_RespawnClearsCooldown ==
  [][ /\ (player.health > 0 /\ player'.health = 0) =>
           CopiesIn(RespawnTimer(now' + 2000), timers')
             = CopiesIn(RespawnTimer(now' + 2000), timers) + 1
      /\ PlayerRespawned =>
           /\ player'.health = PLAYER_MAX_HEALTH
           /\ camera'.position = Vector3(0, 24 * MICRO, 0)
           /\ now' - player'.lastDamageTime >= 200
    ]_vars

\* C7 witness: the player was hit while down and has respawned less than
\* 200 ms later: at full health, the invulnerability window is open.
C7_Witness ==
  /\ player.health = PLAYER_MAX_HEALTH
  /\ player.lastDamageTime > StartTime
  /\ now - player.lastDamageTime < 200
  /\ camera.position = Vector3(0, 24 * MICRO, 0)

----------------------------------------------------------------------------
(* Enemy AI: the claims *)

\* What updateEnemies did to each enemy in the last frame
AIUpdates == { obs.ai[i] : i \in DOMAIN obs.ai }

\* C11: the state an AI update leaves an enemy in depends on its distance d
\* to the player only: attack if d < 700, chase if 700 <= d < 1100, patrol
\* if d >= 1100, whatever the state before; 500 gives attack, 900 chase,
\* 1500 patrol, 700 chase and 1100 patrol.
C11_StateByDistance ==
  \A u \in AIUpdates :
    /\ u.dist < 700 => u.after.state = "attack"
    /\ (700 <= u.dist /\ u.dist < 1100) => u.after.state = "chase"
    /\ u.dist >= 1100 => u.after.state = "patrol"
    /\ u.dist = 500 => u.after.state = "attack"
    /\ u.dist = 900 => u.after.state = "chase"
    /\ u.dist = 1500 => u.after.state = "patrol"
    /\ u.dist = 700 => u.after.state = "chase"
    /\ u.dist = 1100 => u.after.state = "patrol"

\* C11 witness: an enemy that was attacking is seen at distance 700, on the
\* threshold, and chases.
C11_Witness ==
  \E u \in AIUpdates :
    u.dist = 700 /\ u.before.state = "attack" /\ u.after.state = "chase"

----------------------------------------------------------------------------
(* Invalid fire attempts: the claims *)

\* C12: a fire attempt while the equipped weapon is reloading changes no
\* weapon's ammo, reserve, lastShotTime or reloading, schedules nothing and
\* resolves no pellet; a fire attempt on an empty magazine spends nothing,
\* resolves no pellet, leaves lastShotTime alone, and makes a reload
\* attempt, which starts a reload exactly when the reserve holds a round.
C12_InvalidFireNoOp ==
  [][ onMouseDown(0, FALSE) =>
        LET w == currentWeaponIndex
        IN /\ St(w).reloading =>
                /\ weaponState' = weaponState
                /\ timers' = timers
                /\ ~obs'.fired /\ obs'.queries = 0
           /\ (~St(w).reloading /\ St(w).ammo = 0) =>
                /\ ~obs'.fired /\ obs'.queries = 0
                /\ weaponState'[w].ammo = 0
                /\ weaponState'[w].reserve = St(w).reserve
                /\ weaponState'[w].lastShotTime = St(w).lastShotTime
                /\ weaponState'[w].reloading = (St(w).reserve > 0)
                /\ timers' = IF St(w).reserve > 0
                             THEN timers (+) SetToBag({ReloadTimer(w,
                                                 now + Def(w).reload)})
                             ELSE timers
                /\ \A v \in WeaponIndex \ {w} : weaponState'[v] = St(v)
    ]_vars

\* C12 witness: a fire attempt on the rifle's empty magazine has started its
\* reload and fired nothing.
C12_Witness ==
  /\ obs = [NoFx EXCEPT !.w = 2]
  /\ St(2).ammo = 0 /\ St(2).reloading
  /\ CopiesIn(ReloadTimer(2, now + Def(2).reload), timers) = 1

----------------------------------------------------------------------------
(* The rifle's burst: the claim *)

\* The frame makes a fire attempt with the rifle, which is loaded and not
\* reloading: the button is held during the frame at time now'.
RifleAttemptInFrame ==
  /\ now' > now /\ framesLeft' < framesLeft
  /\ input.shooting /\ currentWeaponIndex = 2
  /\ ~St(2).reloading /\ St(2).ammo > 0

\* C13: the rifle (rpm 700, 85.7 ms between shots) is asked to fire at 0,
\* TICK_MS and 2 * TICK_MS after a shot at StartTime: the attempt TICK_MS
\* after a shot fires nothing and spends nothing, the attempt 2 * TICK_MS
\* after it fires and spends one round, and up to 2 * TICK_MS after the
\* start the rifle has spent 2 rounds at most.
C13_RifleBurst ==
  /\ [][ RifleAttemptInFrame =>
           /\ now' - St(2).lastShotTime = TICK_MS =>
                /\ weaponState' = weaponState
                /\ obs'.w = 2 /\ ~obs'.fired /\ obs'.queries = 0
           /\ now' - St(2).lastShotTime = 2 * TICK_MS =>
                /\ weaponState'[2].ammo = St(2).ammo - 1
                /\ weaponState'[2].lastShotTime = now'
                /\ obs'.w = 2 /\ obs'.fired
       ]_vars
  /\ [](now <= StartTime + 2 * TICK_MS => St(2).ammo >= Def(2).mag - 2)

\* C13 witness: the button was pressed at StartTime and held for two frames:
\* the rifle fired at StartTime and 2 * TICK_MS later, two rounds are gone.
C13_Witness ==
  /\ now = StartTime + 2 * TICK_MS
  /\ input.shooting /\ currentWeaponIndex = 2
  /\ St(2).lastShotTime = now
  /\ St(2).ammo = Def(2).mag - 2 /\ St(2).reserve = Def(2).reserve
  /\ obs.w = 2 /\ obs.fired

----------------------------------------------------------------------------
(* Enemy shots: the claims *)

\* The shots the enemies attempted in the last handler
EnemyShots == { obs.shots[i] : i \in DOMAIN obs.shots }

\* C14: the hit chance of an enemy's shot at distance d is
\* clamp(0.6 - d / 2000, 0.05, 0.35), here in thousandths: it is within
\* 50 .. 350, does not increase with d, and is 50 at distance 1800.
C14_HitChance ==
  /\ \A x \in EnemyShots :
       /\ x.chance = clamp(600 - x.dist \div 2, 50, 350)
       /\ x.chance \in 50 .. 350
       /\ x.dist = 1800 => x.chance = 50
  /\ \A d1, d2 \in ChanceDistances :
       d1 <= d2 => hitChance(d1) >= hitChance(d2)

\* C14 witness: a shot from distance 1800 has hit the player: the roll was
\* below the floor of the chance.
C14_Witness ==
  /\ \E x \in EnemyShots : x.dist = 1800 /\ x.chance = 50 /\ x.hit
  /\ player.health < PLAYER_MAX_HEALTH /\ player.lastDamageTime = now

\* C15: the damage of an enemy's hit is an integer of 6 .. 14, and every
\* integer of 6 .. 14 can be the damage.
C15_DamageRange ==
  /\ \A c \in DamageCalls : c.dmg \in 6 .. 14
  /\ EnemyDamages = 6 .. 14

\* C15 witness: an enemy's hit has dealt the greatest damage there is, 13.
C15_Witness ==
  \E c \in DamageCalls :
    /\ c.dmg = 13
    /\ \A d \in EnemyDamages : d <= c.dmg
    /\ c.after.health = c.before.health - 13

----------------------------------------------------------------------------
(* Weapon switching: the claim *)

LastWeapon == Len(WEAPON_DEFS) - 1

\* C16: the wheel moves the equipped index by one with wraparound (from the
\* last weapon forwards to 0, from 0 backwards to the last), a digit key
\* equips the index it names, the equipped index is always an index of the
\* catalog, and a switch changes no weapon's ammo, reserve, lastShotTime or
\* reloading.
C16_SwitchWraps ==
  /\ [][ /\ onWheel(1) =>
              currentWeaponIndex' = IF currentWeaponIndex = LastWeapon THEN 0
                                    ELSE currentWeaponIndex + 1
         /\ onWheel(-1) =>
              currentWeaponIndex' = IF currentWeaponIndex = 0 THEN LastWeapon
                                    ELSE currentWeaponIndex - 1
         /\ \A digit \in 1 .. 6 :
              onKeyDownDigit(digit) => currentWeaponIndex' = digit - 1
         /\ ((\E sign \in {-1, 1} : onWheel(sign))
             \/ (\E digit \in 1 .. 6 : onKeyDownDigit(digit))) =>
              weaponState' = weaponState
       ]_vars
  /\ [](currentWeaponIndex \in WeaponIndex)

\* C16 witness: the last weapon of the catalog is equipped and a weapon that
\* was fired keeps its spent round: from the rifle the wheel has gone
\* backwards past index 0, or forwards, or the key 6 was pressed.
C16_Witness ==
  /\ currentWeaponIndex = LastWeapon
  /\ \E w \in WeaponIndex \ {LastWeapon} :
       St(w).ammo = Def(w).mag - 1 /\ St(w).lastShotTime = now

\* C17: an enemy attempts a shot only in a frame that leaves it in state
\* attack, at a distance below 700, and at least 800 ms after its last
\* attempt; an attempt, hit or miss, sets the enemy's lastShotTime to the
\* time of the frame, and a frame without an attempt leaves it alone.
C17_EnemyFireGate ==
  \A u \in AIUpdates :
    /\ u.shot = (\E x \in EnemyShots : x.enemy = u.enemy)
    /\ u.shot =>
         /\ u.after.state = "attack" /\ u.dist < 700
         /\ u.t - u.before.lastShotTime >= 800
         /\ u.after.lastShotTime = u.t
    /\ ~u.shot => u.after.lastShotTime = u.before.lastShotTime
    /\ (u.after.state = "attack" /\ u.t - u.before.lastShotTime >= 800)
         => u.shot

\* C17 witness: an enemy that has fired before fires again, 800 ms later or
\* more, and misses: its lastShotTime is the time of the frame.
C17_Witness ==
  \E u \in AIUpdates :
    /\ u.shot /\ u.before.lastShotTime >= StartTime
    /\ u.after.lastShotTime = now
    /\ \E x \in EnemyShots : x.enemy = u.enemy /\ ~x.hit

\* What the pellets of the last fire attempt did
Pellets == obs.pellets

\* The enemy a mesh belongs to
OwnerOf(mesh) == { e \in DOMAIN enemyObj : enemyObj[e].mesh = mesh }

\* C18: a pellet that meets a mesh of the enemy pool damages the enemy of
\* that mesh and no other, spawns a hit marker and does not query the world
\* colliders; a pellet that meets no enemy damages nobody, queries the world
\* colliders and spawns an impact if and only if the query reports a hit.
C18_PelletResolution ==
  \A p \in Pellets :
    /\ p.mesh # -1 =>
         /\ p.damaged = OwnerOf(p.mesh) /\ Cardinality(p.damaged) = 1
         /\ p.marker /\ p.world = "none" /\ ~p.impact
    /\ p.mesh = -1 =>
         /\ p.damaged = {} /\ ~p.marker
         /\ p.world \in {"hit", "miss"}
         /\ p.impact = (p.world = "hit")

\* C18 witness: one shot whose pellets did all three things: one hit an
\* enemy, one hit a world collider and one hit nothing.
C18_Witness ==
  /\ obs.fired /\ obs.queries > 1
  /\ \E p \in Pellets : p.marker /\ p.damaged # {}
  /\ \E p \in Pellets : p.world = "hit" /\ p.impact
  /\ \E p \in Pellets : p.world = "miss" /\ ~p.impact

----------------------------------------------------------------------------
(* Player movement: the claims *)

\* A step that renders a frame
FrameStep == framesLeft' = framesLeft - 1

\* The delta of the frame of a step, in ms (main.js 632)
FrameDelta == clamp(now' - now, 0, 50)

\* The height integration reaches from height y with vertical velocity vy,
\* the ground at 24 stopping it (main.js 613-621)
IntegratedHeight(y, vy, deltaMs) ==
  IF y + vy * deltaMs <= 24 * MICRO THEN 24 * MICRO ELSE y + vy * deltaMs

\* C19: a frame that starts with the player airborne integrates the height
\* with the vertical velocity of the start of the frame minus
\* GRAVITY * delta; a frame that starts with the player on the ground and
\* jump held sets velocity.y to PLAYER_JUMP_VELOCITY and clears onGround; jump
\* held while airborne has no effect on the frame.
C19_VerticalMotion ==
  [][ FrameStep =>
        /\ ~player.onGround =>
             camera'.position.y =
               IntegratedHeight(camera.position.y,
                                player.velocity.y - GRAVITY * FrameDelta,
                                FrameDelta)
        /\ (player.onGround /\ input.jump) =>
             /\ player'.velocity.y = PLAYER_JUMP_VELOCITY * MILLI
             /\ ~player'.onGround
        /\ (~player.onGround /\ input.jump) =>
             player'.velocity.y # PLAYER_JUMP_VELOCITY * MILLI ]_vars

\* C19 witness: the player is in the air and already falling, one frame
\* after the frame of the jump.
C19_Witness ==
  /\ ~player.onGround /\ camera.position.y > 24 * MICRO
  /\ player.velocity.y < 0
  /\ framesLeft = MaxFrames - 2

----------------------------------------------------------------------------
(* Enemy movement: the claims *)

\* C20: no AI update changes the height of an enemy, whatever its state and
\* whatever the height of the player.
C20_EnemyHeightKept ==
  \A u \in AIUpdates : u.after.y = u.before.y

\* C20 witness: a chasing enemy below the camera has been updated and has
\* risen.
C20_Witness ==
  \E u \in AIUpdates :
    /\ u.after.state = "chase" /\ u.py > u.before.y
    /\ u.after.y > u.before.y

----------------------------------------------------------------------------
(* Reload bookkeeping: the claims *)

\* The pending reload callbacks of weapon w
ReloadTimers(w) ==
  { t \in PendingTimers : t.kind = "reload" /\ t.target = w }

\* The number of pending reload callbacks of weapon w
ReloadsPending(w) ==
  IF ReloadTimers(w) = {} THEN 0
  ELSE LET t == CHOOSE t \in ReloadTimers(w) : TRUE
       IN IF Cardinality(ReloadTimers(w)) = 1 THEN CopiesIn(t, timers) ELSE 2

\* C21: a weapon is reloading exactly when one reload callback is pending
\* for it, never two; and from the start of a reload to its completion the
\* weapon's ammo and reserve do not change, whatever else the player does.
C21_ReloadBookkeeping ==
  /\ [](\A w \in WeaponIndex :
          ReloadsPending(w) = IF St(w).reloading THEN 1 ELSE 0)
  /\ [][ \A w \in WeaponIndex :
           (St(w).reloading /\ weaponState'[w].reloading) =>
             /\ weaponState'[w].ammo = St(w).ammo
             /\ weaponState'[w].reserve = St(w).reserve ]_vars

\* C21 witness: a weapon is reloading with rounds left in its magazine while
\* another weapon is equipped and has just fired.
C21_Witness ==
  \E w \in WeaponIndex :
    /\ St(w).reloading /\ St(w).ammo > 0 /\ ReloadsPending(w) = 1
    /\ currentWeaponIndex # w
    /\ obs.fired /\ obs.w = currentWeaponIndex

----------------------------------------------------------------------------
(* Respawn bookkeeping: the claims *)

\* The pending respawn callbacks
RespawnTimers == { t \in PendingTimers : t.kind = "respawnPlayer" }

\* The number of pending respawn callbacks
RespawnsPending ==
  IF RespawnTimers = {} THEN 0
  ELSE LET t == CHOOSE t \in RespawnTimers : TRUE
       IN IF Cardinality(RespawnTimers) = 1 THEN CopiesIn(t, timers) ELSE 2

\* C22: at most one respawn callback is pending at any time, and a respawn
\* callback runs only while player.health is 0: no respawn restores the
\* health of a living player or moves it.
C22_RespawnBookkeeping ==
  /\ [](RespawnsPending <= 1)
  /\ [][ PlayerRespawned => player.health = 0 ]_vars

\* C22 witness: the player has respawned and is at full health, and a
\* respawn callback is still pending.
C22_Witness ==
  /\ player.health = PLAYER_MAX_HEALTH
  /\ RespawnsPending = 1
  /\ camera.position = Vector3(0, 24 * MICRO, 0)

\* C23: every shot an enemy attempts in a frame is measured from less than
\* 700 away, so its hit chance is above 0.25 and at most 0.35 (here in
\* thousandths), and never the 0.05 floor of the clamp.
C23_ReachableHitChance ==
  /\ \A u \in AIUpdates :
       u.shot => \E x \in EnemyShots : x.enemy = u.enemy
  /\ \A x \in EnemyShots :
       /\ x.dist < 700
       /\ x.chance = hitChance(x.dist)
       /\ 250 < x.chance /\ x.chance <= 350
       /\ x.chance # 50

\* C23 witness: an enemy seen 699 away, the farthest an attacker can be, has
\* attempted a shot, a hit, with a chance below 0.26.
C23_Witness ==
  \E u \in AIUpdates :
    /\ u.shot /\ u.dist = 699
    /\ \E x \in EnemyShots :
         x.enemy = u.enemy /\ x.hit /\ x.chance < 260

====
